---- MODULE Spec2Model ----
(***************************************************************************)
(* Learning Intelligence Tool: the data processor (app/preprocess.py),     *)
(* the predictor (app/predict.py) and the request handlers (app/main.py).  *)
(*                                                                         *)
(* Representation.                                                         *)
(*   - A cell of a DataFrame is a record [kind, v, s]: kind "num" is a     *)
(*     finite number v, "inf" is float infinity, "nan" is a missing value, *)
(*     "str" is a Python string s.                                         *)
(*   - A DataFrame is [columns, rows]; a row is a function from the        *)
(*     column names to cells.  DataFrames are objects: they live in a heap *)
(*     (a sequence of frames) and are passed by reference (an index).      *)
(*   - A probability computed by the classifier is an integer number of    *)
(*     1/10000; a probability rounded to 3 decimals is an integer number   *)
(*     of 1/1000.                                                          *)
(***************************************************************************)
EXTENDS Integers, Sequences, FiniteSets, TLC

VARIABLES predictor, pc, last, prev_failure

vars == <<predictor, pc, last, prev_failure>>

\* Longest batch (rows of a DataFrame) that is enumerated.
MaxRows == 3
\* Longest prediction sequence handed directly to generate_insights.
MaxPreds == 3

---------------------------------------------------------------------------
\* Cells

Num(n) == [kind |-> "num", v |-> n, s |-> ""]
Str(t) == [kind |-> "str", v |-> 0, s |-> t]
Inf == [kind |-> "inf", v |-> 0, s |-> ""]
NaN == [kind |-> "nan", v |-> 0, s |-> ""]

\* Exceptions and results of calls
Raise(type, msg, cols) == [ok |-> FALSE, type |-> type, msg |-> msg, cols |-> cols]

Digits == <<"0", "1", "2", "3", "4", "5", "6", "7", "8", "9">>

\* f'S{idx}' for a row index
SyntheticId(idx) == Str("S" \o Digits[idx + 1])

---------------------------------------------------------------------------
\* preprocess.py

REQUIRED_COLUMNS == {"student_id", "course_id", "time_spent_min", "score_percent"}

DerivedColumns == {"engagement_score", "time_score_ratio", "perf_level", "time_level"}

\* DataFrame.empty: some axis has length 0
Empty(df) == Len(df.rows) = 0 \/ df.columns = {}

ValidateEmptyFirst(df) ==
    IF Empty(df)
    THEN Raise("ValueError", "Empty dataframe provided", {})
    ELSE IF REQUIRED_COLUMNS \ df.columns # {}
         THEN Raise("ValueError", "Missing columns", REQUIRED_COLUMNS \ df.columns)
         ELSE [ok |-> TRUE]

validate_input(df) ==
    LET missing == REQUIRED_COLUMNS \ df.columns
    IN  IF missing # {}
        THEN Raise("ValueError", "Missing columns", missing)
        ELSE IF Empty(df)
             THEN Raise("ValueError", "Empty dataframe provided", {})
             ELSE [ok |-> TRUE]

\* Numeric column arithmetic is defined on numbers, inf and NaN; a string raises TypeError.
Arithmetic(c) == c.kind \in {"num", "inf", "nan"}

\* (time_spent_min / 60) * (score_percent / 100), in units of 1/6000
EngagementScore(t, sc) ==
    IF t.kind = "nan" \/ sc.kind = "nan" THEN NaN
    ELSE IF t.kind = "inf" \/ sc.kind = "inf"
         THEN (IF (t.kind = "num" /\ t.v = 0) \/ (sc.kind = "num" /\ sc.v = 0) THEN NaN ELSE Inf)
         ELSE Num(t.v * sc.v)

\* time_spent_min / (score_percent + 1), in units of 1/1000 (truncated)
TimeScoreRatio(t, sc) ==
    IF t.kind = "nan" \/ sc.kind = "nan" THEN NaN
    ELSE IF t.kind = "inf" THEN (IF sc.kind = "inf" THEN NaN ELSE Inf)
    ELSE IF sc.kind = "inf" THEN Num(0)
    ELSE IF sc.v + 1 = 0 THEN (IF t.v = 0 THEN NaN ELSE Inf)
    ELSE Num((t.v * 1000) \div (sc.v + 1))

\* pd.cut(score_percent, bins=[0, 40, 70, 100], labels=[low, medium, high])
PerfLevel(sc) ==
    IF sc.kind # "num" THEN NaN
    ELSE IF 0 < sc.v /\ sc.v <= 40 THEN Str("low")
    ELSE IF 40 < sc.v /\ sc.v <= 70 THEN Str("medium")
    ELSE IF 70 < sc.v /\ sc.v <= 100 THEN Str("high")
    ELSE NaN

\* pd.cut(time_spent_min, bins=[0, 30, 60, inf], labels=[low, medium, high])
TimeLevel(t) ==
    IF t.kind = "inf" THEN Str("high")
    ELSE IF t.kind # "num" THEN NaN
    ELSE IF 0 < t.v /\ t.v <= 30 THEN Str("low")
    ELSE IF 30 < t.v /\ t.v <= 60 THEN Str("medium")
    ELSE IF 60 < t.v THEN Str("high")
    ELSE NaN

\* A row with column c set to cell x (DataFrame column assignment, one row).
SetCell(row, c, x) ==
    [k \in (DOMAIN row) \cup {c} |-> IF k = c THEN x ELSE row[k]]

AugmentRow(row) ==
    LET t  == row["time_spent_min"]
        sc == row["score_percent"]
        r1 == SetCell(row, "engagement_score", EngagementScore(t, sc))
        r2 == SetCell(r1, "time_score_ratio", TimeScoreRatio(t, sc))
        r3 == SetCell(r2, "perf_level", PerfLevel(sc))
    IN  SetCell(r3, "time_level", TimeLevel(t))

\* df.copy(): a new object holding the same table; the reference returned is the new one.
CopyFrameAliased(heap, id) == [heap |-> heap, id |-> id]

CopyFrame(heap, id) == [heap |-> Append(heap, heap[id]), id |-> Len(heap) + 1]

engineer_features(heap, id) ==
    LET cp == CopyFrame(heap, id)
        df == cp.heap[cp.id]
        bad == \E i \in 1..Len(df.rows) :
                   ~Arithmetic(df.rows[i]["time_spent_min"])
                   \/ ~Arithmetic(df.rows[i]["score_percent"])
    IN  IF bad
        THEN [ok |-> FALSE, type |-> "TypeError", msg |-> "unsupported operand type(s)",
              cols |-> {}, heap |-> cp.heap]
        ELSE [ok |-> TRUE,
              heap |-> [cp.heap EXCEPT ![cp.id] =
                           [columns |-> df.columns \cup DerivedColumns,
                            rows |-> [i \in 1..Len(df.rows) |-> AugmentRow(df.rows[i])]]],
              df |-> cp.id]

\* The result of process when validate_input raised v: the exception propagates
ValidationFailure(v, heap) ==
    [ok |-> FALSE, type |-> v.type, msg |-> v.msg, cols |-> v.cols, heap |-> heap]

\* The result of process after engineer_features returned e: the processed frame
\* and feature_columns
WithFeatureColumns(e) ==
    IF ~e.ok THEN e
    ELSE [ok |-> TRUE, heap |-> e.heap, df |-> e.df,
          features |->
              <<"time_spent_min", "score_percent", "engagement_score", "time_score_ratio">>
              \o (IF "chapter_order" \in e.heap[e.df].columns
                  THEN <<"chapter_order">> ELSE <<>>)]

process(heap, id) ==
    IF validate_input(heap[id]).ok
    THEN WithFeatureColumns(engineer_features(heap, id))
    ELSE ValidationFailure(validate_input(heap[id]), heap)

---------------------------------------------------------------------------
\* predict.py

n_estimators == 10

\* A fitted tree of the forest.  The four training rows are separable by one
\* comparison, so every leaf is pure and a tree votes 0 or 1: 1 iff the tested
\* feature (1 time_spent_min, 2 score_percent, 3 chapter_order) exceeds the threshold.
Stump(feature, threshold) == [feature |-> feature, threshold |-> threshold]

\* A forest of n_estimators trees: a on time, b on score, the others on chapter.
MkForest(a, b) ==
    [i \in 1..n_estimators |->
        IF i <= a THEN Stump(1, 35)
        ELSE IF i <= a + b THEN Stump(2, 65)
        ELSE Stump(3, 1)]

\* The forests RandomForestClassifier.fit may have built (which trees are drawn
\* depends on the library's random stream, fixed by random_state).
ForestShapes == {<<3, 3>>, <<3, 2>>, <<10, 0>>}

_create_dummy_model == {MkForest(sh[1], sh[2]) : sh \in ForestShapes}

\* LearningPredictor.__init__
NewPredictors ==
    {[completion_model |-> m, dropout_model |-> m, scaler |-> "unfitted"] :
        m \in _create_dummy_model}

\* completion_model.predict_proba(X)[0][1] for X = [[x1, x2, x3]], in 1/10000.
\* The input validation of the classifier rejects strings and non-finite values.
predict_proba(model, X) ==
    IF \E j \in 1..3 : X[j].kind = "str"
    THEN Raise("ValueError", "could not convert string to float", {})
    ELSE IF \E j \in 1..3 : X[j].kind \in {"inf", "nan"}
    THEN Raise("ValueError", "Input X contains infinity or NaN", {})
    ELSE LET votes == Cardinality({i \in 1..n_estimators :
                          X[model[i].feature].v > model[i].threshold})
         IN  [ok |-> TRUE, prob |-> (votes * 10000) \div n_estimators]

\* round(x, 3) for x in 1/10000: the result in 1/1000, ties to even
Round3(x) ==
    LET q == x \div 10
        r == x % 10
    IN  IF r > 5 \/ (r = 5 /\ q % 2 = 1) THEN q + 1 ELSE q

RiskLevelInclusive(completion_prob) ==
    IF completion_prob <= 3000 THEN "HIGH"
    ELSE IF completion_prob <= 6000 THEN "MEDIUM"
    ELSE "LOW"

\* Risk determination
RiskLevel(completion_prob) ==
    IF completion_prob < 3000 THEN "HIGH"
    ELSE IF completion_prob < 6000 THEN "MEDIUM"
    ELSE "LOW"

PredictedCompletionStrict(completion_prob) == IF completion_prob > 5000 THEN 1 ELSE 0

PredictedCompletion(completion_prob) == IF completion_prob >= 5000 THEN 1 ELSE 0

\* row.get(key, default)
RowGet(row, key, default) == IF key \in DOMAIN row THEN row[key] ELSE default

\* The body of the try block for one row: the feature vector and the score.
ScoreRow(self, row) ==
    IF "time_spent_min" \notin DOMAIN row
    THEN Raise("KeyError", "time_spent_min", {})
    ELSE IF "score_percent" \notin DOMAIN row
    THEN Raise("KeyError", "score_percent", {})
    ELSE predict_proba(self.completion_model,
                       <<row["time_spent_min"], row["score_percent"],
                         RowGet(row, "chapter_order", Num(1))>>)

\* What the try block appends for a scored row
OnRowScored(row, idx, completion_prob) ==
    <<[student_id |-> RowGet(row, "student_id", SyntheticId(idx)),
       completion_probability |-> Round3(completion_prob),
       risk_level |-> RiskLevel(completion_prob),
       predicted_completion |-> PredictedCompletion(completion_prob)]>>

OnRowErrorSkip(row, idx, e) == <<>>

\* What the except block appends for a row whose scoring raised e
OnRowError(row, idx, e) ==
    <<[student_id |-> RowGet(row, "student_id", SyntheticId(idx)),
       error |-> e.msg]>>

RECURSIVE PredictLoop(_, _, _, _)
\* for idx, row in df.iterrows(): rows i..Len(rows), predictions so far in acc
PredictLoop(self, rows, i, acc) ==
    IF i > Len(rows) THEN acc
    ELSE LET sc == ScoreRow(self, rows[i])
         IN  PredictLoop(self, rows, i + 1,
                 acc \o (IF sc.ok THEN OnRowScored(rows[i], i - 1, sc.prob)
                         ELSE OnRowError(rows[i], i - 1, sc)))

PredictFittingScaler(self, heap, id, features) ==
    [self |-> [self EXCEPT !.scaler = "fitted"],
     heap |-> heap,
     predictions |-> PredictLoop(self, heap[id].rows, 1, <<>>)]

\* LearningPredictor.predict(df, features): df is the frame heap[id], changed in
\* place when it has no chapter_order column.
predict(self, heap, id, features) ==
    LET df  == heap[id]
        df1 == IF "chapter_order" \notin df.columns
               THEN [columns |-> df.columns \cup {"chapter_order"},
                     rows |-> [i \in 1..Len(df.rows) |->
                                  SetCell(df.rows[i], "chapter_order", Num(1))]]
               ELSE df
    IN  [self |-> self,
         heap |-> [heap EXCEPT ![id] = df1],
         predictions |-> PredictLoop(self, df1.rows, 1, <<>>)]

RECURSIVE SumProb(_, _)
SumProb(predictions, i) ==
    IF i > Len(predictions) THEN 0
    ELSE predictions[i].completion_probability + SumProb(predictions, i + 1)

\* round(np.mean(xs), 3) for xs in 1/1000, ties to even
RoundMean(total, n) ==
    LET q == total \div n
        r == total % n
    IN  IF 2 * r > n \/ (2 * r = n /\ q % 2 = 1) THEN q + 1 ELSE q

IsHighRisk(p) == "risk_level" \in DOMAIN p /\ p.risk_level = "HIGH"

\* LearningPredictor.generate_insights(df, predictions)
generate_insights(df, predictions) ==
    LET high_risk == SelectSeq(predictions, IsHighRisk)
    IN  IF \E i \in 1..Len(predictions) :
               "completion_probability" \notin DOMAIN predictions[i]
        THEN Raise("KeyError", "completion_probability", {})
        ELSE [ok |-> TRUE,
              high_risk_students |->
                  [i \in 1..Len(high_risk) |-> high_risk[i].student_id],
              high_risk_count |-> Len(high_risk),
              total_students |-> Len(df.rows),
              key_completion_factors |-> <<"time_spent_min", "score_percent">>,
              difficult_chapters |-> <<>>,
              average_completion_probability |->
                  IF Len(predictions) = 0 THEN NaN
                  ELSE Num(RoundMean(SumProb(predictions, 1), Len(predictions))),
              recommendations |->
                  "Focus on high-risk students with personalized intervention"]

---------------------------------------------------------------------------
\* main.py

\* The text of a number 0..99 in a CSV file
NumText(n) == IF n < 10 THEN Digits[n + 1] ELSE Digits[(n \div 10) + 1] \o Digits[(n % 10) + 1]

\* pd.read_csv column typing: a column holding any non-numeric text is a column
\* of strings, the numbers in it are their text.
CsvCell(cell, textual) ==
    IF textual /\ cell.kind = "num" THEN Str(NumText(cell.v))
    ELSE IF textual /\ cell.kind = "inf" THEN Str("inf")
    ELSE cell

\* contents.decode() and pd.read_csv: an upload is text that parses to a table, or does not
read_csv(upload) ==
    IF ~upload.parseable
    THEN Raise("EmptyDataError", "No columns to parse from file", {})
    ELSE LET t == upload.table
             textual(c) == \E i \in 1..Len(t.rows) : t.rows[i][c].kind = "str"
         IN  [ok |-> TRUE,
              df |-> [columns |-> t.columns,
                      rows |-> [i \in 1..Len(t.rows) |->
                                   [c \in t.columns |-> CsvCell(t.rows[i][c], textual(c))]]]]

CatchesValueErrorOnly(e) == e.type = "ValueError"

\* except Exception as e
Catches(e) == TRUE

\* raise HTTPException(status_code=400, detail=str(e)); an exception no handler
\* catches leaves the request without a response of the application
HTTPException(e) ==
    IF Catches(e) THEN [kind |-> "error", status_code |-> 400, detail |-> e.msg]
    ELSE [kind |-> "crash"]

\* click.echo(f"Error: {str(e)}", err=True)
EchoError(e) ==
    IF Catches(e) THEN [kind |-> "error", stderr |-> <<"Error: ", e.msg>>]
    ELSE [kind |-> "crash"]

\* The try block shared by predict_batch and predict_cli: read, process, predict,
\* generate_insights, written as one step per statement.  The result keeps the
\* objects of the request: the heap, the caller's frame df (heap[1]) and the
\* processed frame.

\* return {...}, or the exception of generate_insights
PipelineResult(pr, pd, ins) ==
    IF ~ins.ok
    THEN [ok |-> FALSE, exc |-> ins, self |-> pd.self, heap |-> pd.heap,
          processed_data |-> pr.df, predictions |-> pd.predictions]
    ELSE [ok |-> TRUE, self |-> pd.self, heap |-> pd.heap,
          processed_data |-> pr.df, predictions |-> pd.predictions,
          result |-> [status |-> "success", predictions |-> pd.predictions,
                      insights |-> ins]]

\* insights = predictor.generate_insights(df, predictions)
PipelineInsights(pr, pd) ==
    PipelineResult(pr, pd, generate_insights(pd.heap[1], pd.predictions))

\* predictions = predictor.predict(processed_data, features)
PipelinePredict(self, pr) ==
    IF ~pr.ok
    THEN [ok |-> FALSE, exc |-> Raise(pr.type, pr.msg, pr.cols), self |-> self,
          heap |-> pr.heap, processed_data |-> 0, predictions |-> <<>>]
    ELSE PipelineInsights(pr, predict(self, pr.heap, pr.df, pr.features))

\* processed_data, features = processor.process(df)
PipelineProcess(self, rd) ==
    IF ~rd.ok
    THEN [ok |-> FALSE, exc |-> rd, self |-> self, heap |-> <<>>, processed_data |-> 0,
          predictions |-> <<>>]
    ELSE PipelinePredict(self, process(<<rd.df>>, 1))

Pipeline(self, upload) == PipelineProcess(self, read_csv(upload))

\* The response of predict_batch for the outcome r of its try block
BatchResponse(r) ==
    [self |-> r.self, heap |-> r.heap, processed_data |-> r.processed_data,
     response |-> IF r.ok
                  THEN [kind |-> "ok", status_code |-> 200, body |-> r.result]
                  ELSE HTTPException(r.exc)]

\* POST /predict
predict_batch(self, file) == BatchResponse(Pipeline(self, file))

\* return {"status": "success", "prediction": predictions[0] if predictions else None}
SingleResponse(pr, pd) ==
    [self |-> pd.self, heap |-> pd.heap, processed_data |-> pr.df,
     response |->
         [kind |-> "ok", status_code |-> 200,
          body |-> [status |-> "success",
                    prediction |-> IF Len(pd.predictions) > 0
                                   THEN <<pd.predictions[1]>> ELSE <<>>]]]

\* predictions = predictor.predict(processed_data, features)
SinglePredict(self, pr) ==
    IF ~pr.ok
    THEN [self |-> self, heap |-> pr.heap, processed_data |-> 0,
          response |-> HTTPException(Raise(pr.type, pr.msg, pr.cols))]
    ELSE SingleResponse(pr, predict(self, pr.heap, pr.df, pr.features))

\* POST /predict-single: student is a validated StudentPrediction
predict_single(self, student) ==
    SinglePredict(self, process(<<[columns |-> DOMAIN student, rows |-> <<student>>]>>, 1))

\* What predict_cli writes for the outcome r of its try block
CliResponse(r, output) ==
    [self |-> r.self, heap |-> r.heap, processed_data |-> r.processed_data,
     response |-> IF r.ok
                  THEN (IF output
                        THEN [kind |-> "ok", file |-> <<r.result>>,
                              stdout |-> <<"Results saved">>]
                        ELSE [kind |-> "ok", file |-> <<>>, stdout |-> <<r.result>>])
                  ELSE EchoError(r.exc)]

\* predict_cli --input ... [--output ...]
predict_cli(self, input, output) == CliResponse(Pipeline(self, input), output)

---------------------------------------------------------------------------
\* The inputs that are enumerated

AllColumns == REQUIRED_COLUMNS \cup {"chapter_order"}

MkRow(sid, t, sc, ch) ==
    [student_id |-> Str(sid), course_id |-> Str("c1"), time_spent_min |-> t,
     score_percent |-> sc, chapter_order |-> Num(ch)]

\* Rows that score, a row whose time is beyond the classifier's range (inf) and
\* a row whose time is not a number.
RowPool ==
    {MkRow("s1", Num(45), Num(42), 1), MkRow("s3", Num(45), Num(75), 1),
     MkRow("s1", Num(15), Num(75), 2),
     MkRow("s4", Inf, Num(75), 2), MkRow("s5", Str("abc"), Num(42), 1)}

ColumnSets ==
    {AllColumns, REQUIRED_COLUMNS, {"student_id", "course_id"}, {}}
    \cup {REQUIRED_COLUMNS \ {c} : c \in REQUIRED_COLUMNS}

RowSeqs(n) == UNION {[1..k -> RowPool] : k \in 0..n}

MkFrame(cs, rows) ==
    [columns |-> cs, rows |-> [i \in 1..Len(rows) |-> [c \in cs |-> rows[i][c]]]]

Batches == {MkFrame(cs, rows) : cs \in ColumnSets, rows \in RowSeqs(MaxRows)}

Unparseable == [parseable |-> FALSE, table |-> MkFrame({}, <<>>)]

Uploads == {Unparseable} \cup {[parseable |-> TRUE, table |-> b] : b \in Batches}

\* Records a StudentPrediction can hold: the fields are typed
Students == {r \in RowPool : r.time_spent_min.kind # "str"}

FeatureLists ==
    {<<"time_spent_min", "score_percent", "engagement_score", "time_score_ratio">>,
     <<"time_spent_min", "score_percent", "engagement_score", "time_score_ratio",
       "chapter_order">>,
     <<>>}

Success(sid, p, risk, done) ==
    [student_id |-> Str(sid), completion_probability |-> p, risk_level |-> risk,
     predicted_completion |-> done]

PredictionPool ==
    {Success("s1", 100, "HIGH", 0), Success("s2", 800, "LOW", 1),
     Success("s3", 200, "HIGH", 0), [student_id |-> Str("s4"), error |-> "bad value"]}

PredictionSeqs == UNION {[1..k -> PredictionPool] : k \in 0..MaxPreds}

\* The original batches given to generate_insights: only their length is read
InsightFrames == {MkFrame(AllColumns, [i \in 1..k |-> MkRow("s1", Num(15), Num(42), 1)]) :
                     k \in 0..MaxRows}

---------------------------------------------------------------------------
\* The service: the module-level predictor, and one call or request at a time

NoCall == [op |-> "none"]

Init ==
    /\ predictor \in NewPredictors
    /\ pc = "idle"
    /\ last = NoCall
    /\ prev_failure = "none"

\* processor.process(df) on a fresh LearnerDataProcessor
CallProcess ==
    /\ pc = "idle"
    /\ \E b \in Batches :
           last' = [op |-> "process", df |-> b, out |-> process(<<b>>, 1)]
    /\ pc' = "done"
    /\ UNCHANGED <<predictor, prev_failure>>

\* predictor.predict(df, features)
CallPredict ==
    /\ pc = "idle"
    /\ \E b \in Batches, f \in FeatureLists :
           \E r \in {predict(predictor, <<b>>, 1, f)} :
               /\ last' = [op |-> "predict", df |-> b, features |-> f,
                           out |-> [ok |-> TRUE, heap |-> r.heap,
                                    predictions |-> r.predictions]]
               /\ predictor' = r.self
    /\ pc' = "done"
    /\ UNCHANGED prev_failure

\* predictor.generate_insights(df, predictions)
CallInsights ==
    /\ pc = "idle"
    /\ \E df \in InsightFrames, ps \in PredictionSeqs :
           last' = [op |-> "generate_insights", df |-> df, predictions |-> ps,
                    out |-> generate_insights(df, ps)]
    /\ pc' = "done"
    /\ UNCHANGED <<predictor, prev_failure>>

PredictBatch ==
    /\ pc = "idle"
    /\ \E u \in Uploads :
           \E r \in {predict_batch(predictor, u)} :
               /\ last' = [op |-> "predict_batch", upload |-> u, heap |-> r.heap,
                           processed_data |-> r.processed_data, out |-> r.response]
               /\ predictor' = r.self
    /\ pc' = "done"
    /\ UNCHANGED prev_failure

PredictSingle ==
    /\ pc = "idle"
    /\ \E st \in Students :
           \E r \in {predict_single(predictor, st)} :
               /\ last' = [op |-> "predict_single", student |-> st, heap |-> r.heap,
                           processed_data |-> r.processed_data, out |-> r.response]
               /\ predictor' = r.self
    /\ pc' = "done"
    /\ UNCHANGED prev_failure

PredictCli ==
    /\ pc = "idle"
    /\ \E u \in Uploads, output \in BOOLEAN :
           \E r \in {predict_cli(predictor, u, output)} :
               /\ last' = [op |-> "predict_cli", upload |-> u, output |-> output,
                           heap |-> r.heap, processed_data |-> r.processed_data,
                           out |-> r.response]
               /\ predictor' = r.self
    /\ pc' = "done"
    /\ UNCHANGED prev_failure

IsRequest == last.op \in {"predict_batch", "predict_single", "predict_cli"}

Failed ==
    IF IsRequest THEN last.out.kind # "ok" ELSE ~last.out.ok

\* The call has returned: everything of the request is discarded, the predictor
\* stays; prev_failure remembers which call failed last, if it did.
Discard ==
    /\ pc = "done"
    /\ prev_failure' = IF Failed THEN last.op ELSE "none"
    /\ last' = NoCall
    /\ pc' = "idle"
    /\ UNCHANGED predictor

Next ==
    \/ CallProcess
    \/ CallPredict
    \/ CallInsights
    \/ PredictBatch
    \/ PredictSingle
    \/ PredictCli
    \/ Discard

Spec == Init /\ [][Next]_vars

---------------------------------------------------------------------------
\* Properties

SuccessFields == {"student_id", "completion_probability", "risk_level", "predicted_completion"}

ErrorFields == {"student_id", "error"}

IsSuccess(p) == "completion_probability" \in DOMAIN p

\* A row the classifier can score: time and score are present and, with the
\* chapter (1 when the column is absent), are finite numbers.
Scoreable(row) ==
    /\ {"time_spent_min", "score_percent"} \subseteq DOMAIN row
    /\ row["time_spent_min"].kind = "num"
    /\ row["score_percent"].kind = "num"
    /\ RowGet(row, "chapter_order", Num(1)).kind = "num"

\* The prediction sequence the last call of predict returned (directly, or in a
\* successful batch response)
Returned ==
    IF last.op = "predict" THEN last.out.predictions
    ELSE IF last.op = "predict_batch" /\ last.out.kind = "ok" THEN last.out.body.predictions
    ELSE <<>>

\* C1: predict returns, for any batch, one entry per row in input order, a success
\* record for each row that scores and an error entry for each row that does not.
Thm_C1_RowIsolation ==
    last.op = "predict" =>
        LET rows == last.df.rows
            ps   == last.out.predictions
        IN  /\ last.out.ok
            /\ Len(ps) = Len(rows)
            /\ \A i \in 1..Len(rows) :
                  /\ ps[i].student_id = RowGet(rows[i], "student_id", SyntheticId(i - 1))
                  /\ Scoreable(rows[i]) => DOMAIN ps[i] = SuccessFields
                  /\ ~Scoreable(rows[i]) => DOMAIN ps[i] = ErrorFields

Wit_C1_MixedBatch ==
    /\ last.op = "predict"
    /\ Len(last.df.rows) = 3
    /\ IsSuccess(last.out.predictions[1])
    /\ ~IsSuccess(last.out.predictions[2])
    /\ IsSuccess(last.out.predictions[3])

\* The request reaches scoring (it parses, validates and its columns are numeric)
\* and some row cannot be scored.
RowFailureInPipeline ==
    /\ last.op \in {"predict_batch", "predict_cli"}
    /\ last.upload.parseable
    /\ LET t == last.upload.table
       IN  /\ REQUIRED_COLUMNS \subseteq t.columns
           /\ Len(t.rows) > 0
           /\ \A i \in 1..Len(t.rows) :
                  t.rows[i]["time_spent_min"].kind # "str" /\ t.rows[i]["score_percent"].kind # "str"
           /\ \E i \in 1..Len(t.rows) : ~Scoreable(t.rows[i])

ResultOf(out) ==
    IF "body" \in DOMAIN out THEN out.body
    ELSE IF Len(out.file) > 0 THEN out.file[1] ELSE out.stdout[1]

\* C2: in the batch pipeline a row-level scoring failure is isolated: the response
\* is a success holding one entry per row, an error entry for each failing row, a
\* success record for the others, and the insights.
Claim_C2_PipelineIsolation ==
    RowFailureInPipeline =>
        /\ last.out.kind = "ok"
        /\ LET res == ResultOf(last.out)
               rows == last.upload.table.rows
           IN  /\ res.status = "success"
               /\ Len(res.predictions) = Len(rows)
               /\ \A i \in 1..Len(rows) : IsSuccess(res.predictions[i]) <=> Scoreable(rows[i])
               /\ res.insights.ok

\* C3: process fails naming exactly the missing columns when a required column is
\* missing, fails with the empty error when the four are present and there is no
\* row, returns nothing in both cases, and validation passes in every other case;
\* a request with such a batch computes no prediction.
Thm_C3_Validation ==
    /\ last.op = "process" =>
          LET missing == REQUIRED_COLUMNS \ last.df.columns
              out == last.out
          IN  /\ missing # {} =>
                    /\ ~out.ok /\ out.type = "ValueError" /\ out.msg = "Missing columns"
                    /\ out.cols = missing
                    /\ "df" \notin DOMAIN out /\ "features" \notin DOMAIN out
              /\ (missing = {} /\ Len(last.df.rows) = 0) =>
                    /\ ~out.ok /\ out.type = "ValueError" /\ out.msg = "Empty dataframe provided"
                    /\ "df" \notin DOMAIN out /\ "features" \notin DOMAIN out
              /\ (missing = {} /\ Len(last.df.rows) > 0) => (out.ok \/ out.type # "ValueError")
    /\ (last.op = "predict_batch" /\ last.upload.parseable) =>
          LET t == last.upload.table
              missing == REQUIRED_COLUMNS \ t.columns
          IN  (missing # {} \/ Len(t.rows) = 0) =>
                  /\ last.out.kind = "error"
                  /\ last.out.detail = (IF missing # {} THEN "Missing columns"
                                        ELSE "Empty dataframe provided")
                  /\ DOMAIN last.out = {"kind", "status_code", "detail"}
                  /\ last.processed_data = 0

Wit_C3_EmptyAndMissing ==
    /\ last.op = "process"
    /\ Len(last.df.rows) = 0
    /\ last.df.columns = REQUIRED_COLUMNS \ {"score_percent"}
    /\ last.out.cols = {"score_percent"}

\* C4: in every success record returned by predict, risk_level is HIGH iff the
\* reported completion_probability is below 0.3, MEDIUM iff it is in [0.3, 0.6),
\* LOW iff it is at least 0.6.
Thm_C4_RiskBuckets ==
    \A i \in 1..Len(Returned) :
        IsSuccess(Returned[i]) =>
            LET p == Returned[i].completion_probability
                r == Returned[i].risk_level
            IN  /\ r \in {"HIGH", "MEDIUM", "LOW"}
                /\ r = "HIGH" <=> p < 300
                /\ r = "MEDIUM" <=> (300 <= p /\ p < 600)
                /\ r = "LOW" <=> p >= 600

Wit_C4_Boundaries ==
    /\ Len(Returned) = 2
    /\ IsSuccess(Returned[1]) /\ Returned[1].completion_probability = 300
    /\ Returned[1].risk_level = "MEDIUM"
    /\ IsSuccess(Returned[2]) /\ Returned[2].completion_probability = 600
    /\ Returned[2].risk_level = "LOW"

\* C5: in every success record returned by predict, predicted_completion is 1 iff
\* the reported completion_probability is at least 0.5, and 0 otherwise.
Thm_C5_PredictedCompletion ==
    \A i \in 1..Len(Returned) :
        IsSuccess(Returned[i]) =>
            /\ Returned[i].predicted_completion \in {0, 1}
            /\ Returned[i].predicted_completion = 1
                   <=> Returned[i].completion_probability >= 500

Wit_C5_Half ==
    \E i \in 1..Len(Returned) :
        /\ IsSuccess(Returned[i])
        /\ Returned[i].completion_probability = 500
        /\ Returned[i].predicted_completion = 1

Successes(ps) == SelectSeq(ps, IsSuccess)

\* C6: for a prediction sequence with at least one success record,
\* generate_insights gives the mean of the success records' probabilities,
\* rounded to 3 decimals, error entries excluded.
Claim_C6_AverageOfSuccesses ==
    (last.op = "generate_insights" /\ Len(Successes(last.predictions)) > 0) =>
        /\ last.out.ok
        /\ last.out.average_completion_probability =
               Num(RoundMean(SumProb(Successes(last.predictions), 1),
                             Len(Successes(last.predictions))))

IsHigh(p) == IsSuccess(p) /\ p.risk_level = "HIGH"

\* C7: for every batch and prediction sequence generate_insights returns the ids
\* of the HIGH predictions in order, their number, and the batch's number of rows.
Claim_C7_HighRisk ==
    last.op = "generate_insights" =>
        LET high == SelectSeq(last.predictions, IsHigh)
        IN  /\ last.out.ok
            /\ last.out.high_risk_students = [i \in 1..Len(high) |-> high[i].student_id]
            /\ last.out.high_risk_count = Len(high)
            /\ last.out.total_students = Len(last.df.rows)

\* The batch the caller of process holds, as it was when the request started
Original ==
    IF last.op = "process" THEN last.df
    ELSE IF last.op = "predict_single"
    THEN [columns |-> DOMAIN last.student, rows |-> <<last.student>>]
    ELSE read_csv(last.upload).df

\* heap[id] is a new frame holding the rows of orig in order, each with its
\* original cells and the four derived columns, and heap[1] still is orig.
AugmentedCopy(orig, heap, id) ==
    /\ id # 1
    /\ heap[1] = orig
    /\ Len(heap[id].rows) = Len(orig.rows)
    /\ orig.columns \cup DerivedColumns \subseteq heap[id].columns
    /\ \A i \in 1..Len(orig.rows) :
          /\ \A c \in orig.columns : heap[id].rows[i][c] = orig.rows[i][c]
          /\ DerivedColumns \subseteq DOMAIN heap[id].rows[i]

\* C8: process returns a new batch with the input's rows in order, the original
\* columns kept and the four derived columns added, and the caller's batch is
\* unchanged by process and by the predict call that follows.
Thm_C8_OriginalUntouched ==
    /\ (last.op = "process" /\ last.out.ok) =>
           AugmentedCopy(last.df, last.out.heap, last.out.df)
    /\ (IsRequest /\ last.processed_data # 0) =>
           AugmentedCopy(Original, last.heap, last.processed_data)

Wit_C8_DefaultChapter ==
    /\ last.op = "predict_batch"
    /\ last.processed_data # 0
    /\ Len(last.upload.table.rows) = 2
    /\ "chapter_order" \notin last.upload.table.columns
    /\ "chapter_order" \in last.heap[last.processed_data].columns
    /\ "chapter_order" \notin last.heap[1].columns

\* A batch request that raises nowhere: it parses, validates and every row scores.
CleanUpload(u) ==
    /\ u.parseable
    /\ REQUIRED_COLUMNS \subseteq u.table.columns
    /\ Len(u.table.rows) > 0
    /\ \A i \in 1..Len(u.table.rows) : Scoreable(u.table.rows[i])

C9_Response ==
    IsRequest =>
        /\ last.out.kind \in {"ok", "error"}
        /\ last.out.kind = "error" =>
               IF last.op = "predict_cli"
               THEN DOMAIN last.out = {"kind", "stderr"} /\ last.out.stderr[1] = "Error: "
               ELSE DOMAIN last.out = {"kind", "status_code", "detail"}
                    /\ last.out.status_code = 400
        /\ last.op \in {"predict_batch", "predict_cli"} =>
               (last.out.kind = "ok" <=> CleanUpload(last.upload))

\* C9: every failure of a request is answered by one client-visible error (HTTP
\* 400 with the message, or an "Error: ..." line) holding no partial result, never
\* by an uncaught exception; a failed request leaves the predictor as it was, and
\* a clean request that follows a failure is answered with a success.
Thm_C9_FailuresReported ==
    /\ [](C9_Response /\ predictor \in NewPredictors)
    /\ [][(pc = "idle" /\ IsRequest' /\ Failed') => predictor' = predictor]_vars

Wit_C9_ServedAfterFailure ==
    /\ prev_failure = "predict_batch"
    /\ last.op = "predict_batch"
    /\ last.out.kind = "ok"

C10_FeatureNames ==
    last.op = "predict" =>
        \A f \in FeatureLists :
            predict(predictor, <<last.df>>, 1, f).predictions = last.out.predictions

\* C10: the predictor's state is set at construction and no call changes it, so
\* what predict returns for a batch depends neither on the calls made before nor
\* on the feature_names argument.
Thm_C10_PredictorImmutable ==
    /\ [](C10_FeatureNames /\ predictor \in NewPredictors)
    /\ [][predictor' = predictor]_vars

Wit_C10_PredictAfterFailure ==
    /\ prev_failure # "none"
    /\ last.op = "predict"
    /\ last.features = <<>>
    /\ Len(last.out.predictions) = 2

====
